---- MODULE Spec2Model ----
(***************************************************************************)
(* A model of src/index.js: createStateMachine(initialState) and the two   *)
(* operations of the machine it returns, handle(reducer) and               *)
(* invoke(eventName, ...args).                                             *)
(*                                                                         *)
(* JavaScript values are modelled as records [t, id]: null, undefined, NaN *)
(* and NumObjs distinct state objects.  A state object is known to the     *)
(* machine only through the members the code reads (exit, entry and the    *)
(* event name handed to invoke); `heap` gives each member of each object.  *)
(* Every activation of handle is a frame on `stack`; a frame records the   *)
(* calls it made itself, in order, in its `trace`.                         *)
(***************************************************************************)
EXTENDS Integers, Sequences, FiniteSets, TLC

VARIABLES currentState, initialState, heap, stack, machine, monitor, toggles

vars == <<currentState, initialState, heap, stack, machine, monitor, toggles>>

\* ------------------------------------------------------------------ bounds
NumObjs == 3
MaxArgs == 2
MaxToggles == 6
MaxDepth == 2

\* ------------------------------------------------------------------ values
Null == [t |-> "null", id |-> 0]
Undefined == [t |-> "undefined", id |-> 0]
NaN == [t |-> "NaN", id |-> 0]
Obj(i) == [t |-> "object", id |-> i]

Objects == {Obj(i) : i \in 1..NumObjs}
Values == {Null, Undefined, NaN} \cup Objects

ArgValues == {"x", "y"}
ArgLists == UNION {[1..n -> ArgValues] : n \in 0..MaxArgs}

HookNames == {"exit", "entry"}
EventNames == {"go", "flag", "missing"}
\* The README documents the entry hook under the name `enter`.
ReadmeHookNames == {"enter"}
MemberNames == HookNames \cup EventNames \cup ReadmeHookNames

\* A member of a state object: absent, a falsy or truthy data field, or a
\* function.  A function is described by what a call of it can do: the
\* values it can return and whether it can throw.
Absent == [kind |-> "absent", rets |-> {}, throws |-> FALSE]
Data(k) == [kind |-> k, rets |-> {}, throws |-> FALSE]
Fn(rets, throws) == [kind |-> "fn", rets |-> rets, throws |-> throws]

\* JavaScript truthiness of a value: null, undefined and NaN are falsy,
\* every object is truthy.
Truthy(v) == v.t = "object"

\* Mutant: states are compared by their contents instead of by identity.
DeepNotEqual(a, b) ==
  IF a.t = "object" /\ b.t = "object"
    THEN heap[a] # heap[b]
    ELSE a # b \/ a = NaN

\* Mutant: every reducer result counts as a new state.
StrictNotEqualAlways(a, b) == TRUE

\* Mutant: `!=` in place of `!==`, under which null and undefined are equal.
LooseNotEqual(a, b) ==
  (a # b \/ a = NaN) /\ ~({a, b} = {Null, Undefined})

\* a !== b.  Objects compare by identity, null and undefined are equal
\* only to themselves, and NaN is not equal to anything, itself included.
StrictNotEqual(a, b) == a # b \/ a = NaN

\* state[name] for a state that is neither null nor undefined.  Numbers
\* (NaN) have none of the members the code looks for.
GetMember(h, v, name) ==
  IF v.t = "object" /\ name \in DOMAIN h[v] THEN h[v][name] ELSE Absent

MemberTruthy(h, v, name) == GetMember(h, v, name).kind \in {"truthy", "fn"}

\* Mutant: the hook is read without the `state &&` guard, so that reading
\* it off null or undefined raises.
HasHookNoGuard(h, v, name) ==
  v \in {Null, Undefined} \/ MemberTruthy(h, v, name)

\* `state && state.hook`
HasHook(h, v, name) == Truthy(v) /\ MemberTruthy(h, v, name)

\* Mutant: the slice is forgotten and the event name is forwarded too.
SliceKeepsAll(arguments, start) == arguments

\* [].slice.call(arguments, start)
Slice(arguments, start) == SubSeq(arguments, start + 1, Len(arguments))

\* ------------------------------------------------------------------ traces
Step(k, v, cur) == [k |-> k, v |-> v, cur |-> cur, ev |-> "", args |-> <<>>]
HandlerStep(v, cur, ev, args) ==
  [k |-> "handler", v |-> v, cur |-> cur, ev |-> ev, args |-> args]

\* What one call of a reducer did: it returned val or threw; `called` says
\* that it called the handler named ev on receiver recv with args.
Returned(v) ==
  [threw |-> FALSE, val |-> v, called |-> FALSE,
   recv |-> Undefined, ev |-> "", args |-> <<>>]
Threw ==
  [threw |-> TRUE, val |-> Undefined, called |-> FALSE,
   recv |-> Undefined, ev |-> "", args |-> <<>>]

\* ------------------------------------------------------------------ frames
\* One activation of handle.  op says who made the call ("construct" for
\* the call inside createStateMachine), arg is the value the reducer was
\* given, next is what it returned, pc is where the activation stands,
\* failedAt is the call that threw, if one did.  call is what the host
\* passed to invoke (the event name, then the arguments to forward).
\* reentered names the hooks of this activation that called handle or
\* invoke themselves.
NewFrame(op, call, arg) ==
  [op |-> op, call |-> call, pc |-> "call", arg |-> arg, next |-> Undefined,
   failedAt |-> "none", trace |-> <<>>, reentered |-> {}]

Top == stack[Len(stack)]
\* The hook call the top activation is in: the last step of its trace.
Running == Top.trace[Len(Top.trace)]
SetTop(f) == [stack EXCEPT ![Len(stack)] = f]

\* Mutant: the entry hook is called before the reassignment, that is, on
\* the state that is being left.
EnterCallsOld(h, f) ==
  IF HasHook(h, f.arg, "entry")
    THEN [frame |-> [f EXCEPT
                       !.pc = "inEntry",
                       !.trace = @ \o <<Step("assign", f.next, f.next),
                                        Step("entry", f.arg, f.next)>>],
          cur |-> f.next]
    ELSE [frame |-> [f EXCEPT
                       !.pc = "done",
                       !.trace = Append(@, Step("assign", f.next, f.next))],
          cur |-> f.next]

\* Mutant: the entry hook is never called.
EnterSkipsHook(h, f) ==
  [frame |-> [f EXCEPT !.pc = "done",
                       !.trace = Append(@, Step("assign", f.next, f.next))],
   cur |-> f.next]

\* Lines 13-16: the reassignment, then the entry hook of the new state.
\* The result is the frame and the value of currentState.
Enter(h, f) ==
  LET assigned == [f EXCEPT !.trace = Append(@, Step("assign", f.next, f.next))]
  IN  IF HasHook(h, f.next, "entry")
        THEN IF GetMember(h, f.next, "entry").kind = "fn"
               THEN [frame |-> [assigned EXCEPT
                                  !.pc = "inEntry",
                                  !.trace = Append(@, Step("entry", f.next, f.next))],
                     cur |-> f.next]
               ELSE [frame |-> [assigned EXCEPT !.pc = "threw", !.failedAt = "entry"],
                     cur |-> f.next]
        ELSE [frame |-> [assigned EXCEPT !.pc = "done"], cur |-> f.next]

\* Mutant: the exit hook of the old state is never called.
LeaveSkipsExit(h, f, cur) ==
  IF ~StrictNotEqual(f.next, cur)
    THEN [frame |-> [f EXCEPT !.pc = "done"], cur |-> cur]
    ELSE Enter(h, f)

\* Mutant: the reassignment is done before the exit hook is called.
LeaveAssignsFirst(h, f, cur) ==
  IF ~StrictNotEqual(f.next, cur)
    THEN [frame |-> [f EXCEPT !.pc = "done"], cur |-> cur]
    ELSE IF HasHook(h, cur, "exit")
      THEN [frame |-> [f EXCEPT !.pc = "inExit",
                                !.trace = Append(@, Step("exit", cur, f.next))],
            cur |-> f.next]
      ELSE Enter(h, f)

\* Lines 9-11: the identity check, then the exit hook of the old state.
Leave(h, f, cur) ==
  IF ~StrictNotEqual(f.next, cur)
    THEN [frame |-> [f EXCEPT !.pc = "done"], cur |-> cur]
    ELSE IF HasHook(h, cur, "exit")
      THEN IF GetMember(h, cur, "exit").kind = "fn"
             THEN [frame |-> [f EXCEPT !.pc = "inExit",
                                       !.trace = Append(@, Step("exit", cur, cur))],
                   cur |-> cur]
             ELSE [frame |-> [f EXCEPT !.pc = "threw", !.failedAt = "exit"],
                   cur |-> cur]
      ELSE Enter(h, f)

\* Mutant: the exit hook of the current state is called before the reducer.
BeginExitFirst(h, op, call, cur, out) ==
  LET early == IF HasHook(h, cur, "exit")
                 THEN <<Step("exit", cur, cur)>> ELSE <<>>
      f == [NewFrame(op, call, cur) EXCEPT
              !.trace = early \o <<Step("reducer", cur, cur)>>]
  IN  IF out.threw
        THEN [frame |-> [f EXCEPT !.pc = "threw", !.failedAt = "reducer"],
              cur |-> cur]
        ELSE Enter(h, [f EXCEPT !.next = out.val])

\* Line 8 and what follows it up to the first hook call: the reducer is
\* called with currentState; `out` is what that call did.
Begin(h, op, call, cur, out) ==
  LET called == IF out.called
                  THEN <<HandlerStep(out.recv, cur, out.ev, out.args)>>
                  ELSE <<>>
      f == [NewFrame(op, call, cur) EXCEPT
              !.trace = <<Step("reducer", cur, cur)>> \o called]
  IN  IF out.threw
        THEN [frame |-> [f EXCEPT !.pc = "threw", !.failedAt = "reducer"],
              cur |-> cur]
        ELSE Leave(h, [f EXCEPT !.next = out.val], cur)

\* What a call of a function member can do.
CallOutcomes(m) ==
  {Returned(v) : v \in m.rets} \cup (IF m.throws THEN {Threw} ELSE {})

\* Mutant: the handler is called but the reducer returns the state it was
\* given instead of what the handler returned.
InvokeReducerKeepsState(h, state, eventName, args) ==
  IF state \in {Null, Undefined}
    THEN {Threw}
    ELSE IF ~MemberTruthy(h, state, eventName)
      THEN {Returned(state)}
      ELSE IF GetMember(h, state, eventName).kind # "fn"
        THEN {Threw}
        ELSE {[o EXCEPT !.called = TRUE, !.recv = state, !.ev = eventName,
                        !.args = args, !.val = IF o.threw THEN @ ELSE state] :
                o \in CallOutcomes(GetMember(h, state, eventName))}

\* Mutant: the member is applied without the test that it is there.
InvokeReducerNoTest(h, state, eventName, args) ==
  IF GetMember(h, state, eventName).kind # "fn"
    THEN {Threw}
    ELSE {[o EXCEPT !.called = TRUE, !.recv = state,
                    !.ev = eventName, !.args = args] :
            o \in CallOutcomes(GetMember(h, state, eventName))}

\* Lines 30-32, the reducer invoke hands to handle:
\*   state[eventName] ? state[eventName].apply(state, args) : state
\* Reading a member of null or undefined is a TypeError, and so is
\* calling .apply of a member that is not a function.
InvokeReducer(h, state, eventName, args) ==
  IF state \in {Null, Undefined}
    THEN {Threw}
    ELSE IF ~MemberTruthy(h, state, eventName)
      THEN {Returned(state)}
      ELSE IF GetMember(h, state, eventName).kind # "fn"
        THEN {Threw}
        ELSE {[o EXCEPT !.called = TRUE, !.recv = state,
                        !.ev = eventName, !.args = args] :
                o \in CallOutcomes(GetMember(h, state, eventName))}

\* ------------------------------------------------------------------ inputs
\* The state objects of the host application.  The machine never creates
\* or changes one.  Any object may have an exit and an entry hook; a hook
\* and a handler may return or throw.  The event members cover a handler
\* (go), a data field that is true on one object and false on another
\* (flag, like `connected` in the README's example) and a name no object
\* has (missing).
AnyFn == Fn(Values, TRUE)

EventMembers(i) ==
  CASE i % 3 = 1 -> [go |-> AnyFn, flag |-> Absent]
    [] i % 3 = 2 -> [go |-> AnyFn, flag |-> Data("truthy")]
    [] OTHER     -> [go |-> Absent, flag |-> Data("falsy")]

\* A state written after the README has an enter() method.
EnterMember(i) == IF i % 2 = 1 THEN AnyFn ELSE Absent

ObjectShape(i, hasExit, hasEntry) ==
  [name \in MemberNames |->
     CASE name = "exit"  -> IF hasExit THEN AnyFn ELSE Absent
       [] name = "entry" -> IF hasEntry THEN AnyFn ELSE Absent
       [] name = "enter" -> EnterMember(i)
       [] name = "go"    -> EventMembers(i).go
       [] name = "flag"  -> EventMembers(i).flag
       [] OTHER          -> Absent]

Heaps ==
  {[o \in Objects |-> ObjectShape(o.id, o \in ex, o \in en)] :
     ex \in SUBSET Objects, en \in SUBSET Objects}

\* ----------------------------------------------------------------- history
\* The log of hook calls, kept as what the pairing of entry and exit needs
\* of it: `entered` is the set of states whose last logged hook call is
\* their entry, `open` is the set of those that have both hooks, `paired`
\* says that so far every logged entry came when no state was open and
\* every logged exit of a state with both hooks came when that state was
\* open, `stopped` says that some reducer, handler or hook threw
\* or that a hook called back into the machine (nothing is logged from
\* then on: the pairing is a property of runs without either).
CleanMonitor ==
  [entered |-> {}, open |-> {}, paired |-> TRUE, stopped |-> FALSE]
StoppedMonitor ==
  [entered |-> {}, open |-> {}, paired |-> TRUE, stopped |-> TRUE]

BothHooks(h, v) ==
  GetMember(h, v, "exit").kind = "fn" /\ GetMember(h, v, "entry").kind = "fn"

Log(h, m, s) ==
  IF s.k = "entry"
    THEN [m EXCEPT !.paired = @ /\ m.open = {},
                   !.open = IF BothHooks(h, s.v) THEN @ \cup {s.v} ELSE @,
                   !.entered = @ \cup {s.v}]
  ELSE IF s.k = "exit"
    THEN [m EXCEPT !.paired = @ /\ (BothHooks(h, s.v) => s.v \in m.open),
                   !.open = @ \ {s.v},
                   !.entered = @ \ {s.v}]
  ELSE m

RECURSIVE LogAll(_, _, _)
LogAll(h, m, steps) ==
  IF steps = <<>> THEN m
  ELSE LogAll(h, Log(h, m, Head(steps)), Tail(steps))

\* The monitor after an activation went from the trace `before` to frame f.
Track(h, m, before, f) ==
  IF m.stopped \/ f.pc = "threw" THEN StoppedMonitor
  ELSE LogAll(h, m, SubSeq(f.trace, Len(before) + 1, Len(f.trace)))

\* ----------------------------------------------------------------- actions
\* Line 4, before the call of line 20.
Init ==
  /\ currentState = Null
  /\ initialState \in Values
  /\ heap \in Heaps
  /\ stack = <<>>
  /\ machine = "new"
  /\ monitor = CleanMonitor
  /\ toggles = 0

Run(r) ==
  /\ stack' = Append(stack, r.frame)
  /\ currentState' = r.cur
  /\ monitor' = Track(heap, monitor, <<>>, r.frame)

\* Lines 20-22: handle(function () { return initialState }).
Construct ==
  /\ machine = "new"
  /\ stack = <<>>
  /\ Run(Begin(heap, "construct", <<>>, currentState, Returned(initialState)))
  /\ machine' = "constructing"
  /\ UNCHANGED <<initialState, heap, toggles>>

\* machine.handle(reducer), lines 6-18.  The reducer is any function of
\* the host: it returns some value or throws.
Handle ==
  /\ machine = "ready"
  /\ stack = <<>>
  /\ \E out \in {Returned(v) : v \in Values} \cup {Threw} :
       Run(Begin(heap, "handle", <<>>, currentState, out))
  /\ UNCHANGED <<initialState, heap, machine, toggles>>

\* The body of invoke, lines 29-32, for one `arguments` vector.
InvokeCall(arguments) ==
  LET args == Slice(arguments, 1)
  IN  \E out \in InvokeReducer(heap, currentState, arguments[1], args) :
        Run(Begin(heap, "invoke", arguments, currentState, out))

\* machine.invoke(eventName, ...args), lines 28-33.
Invoke ==
  /\ machine = "ready"
  /\ stack = <<>>
  /\ \E eventName \in EventNames, rest \in ArgLists :
       InvokeCall(<<eventName>> \o rest)
  /\ UNCHANGED <<initialState, heap, machine, toggles>>

\* The hook that is running returns: after exit, lines 13-16 follow;
\* after entry, handle is over.
HookReturns ==
  /\ stack # <<>>
  /\ \/ /\ Top.pc = "inExit"
        /\ LET r == Enter(heap, Top)
           IN  /\ stack' = SetTop(r.frame)
               /\ currentState' = r.cur
               /\ monitor' = Track(heap, monitor, Top.trace, r.frame)
     \/ /\ Top.pc = "inEntry"
        /\ stack' = SetTop([Top EXCEPT !.pc = "done"])
        /\ UNCHANGED <<currentState, monitor>>
  /\ UNCHANGED <<initialState, heap, machine, toggles>>

\* Mutant: the reassignment is made even though the exit hook failed.
HookThrowsCommits ==
  /\ stack # <<>>
  /\ \/ /\ Top.pc = "inExit"
        /\ GetMember(heap, Running.v, "exit").throws
        /\ stack' = SetTop([Top EXCEPT !.pc = "threw", !.failedAt = "exit"])
        /\ currentState' = Top.next
     \/ /\ Top.pc = "inEntry"
        /\ GetMember(heap, Running.v, "entry").throws
        /\ stack' = SetTop([Top EXCEPT !.pc = "threw", !.failedAt = "entry"])
        /\ UNCHANGED currentState
  /\ monitor' = StoppedMonitor
  /\ UNCHANGED <<initialState, heap, machine, toggles>>

\* Mutant: a failing hook puts the old state back.
HookThrowsRollback ==
  /\ stack # <<>>
  /\ \/ /\ Top.pc = "inExit"
        /\ GetMember(heap, Running.v, "exit").throws
        /\ stack' = SetTop([Top EXCEPT !.pc = "threw", !.failedAt = "exit"])
     \/ /\ Top.pc = "inEntry"
        /\ GetMember(heap, Running.v, "entry").throws
        /\ stack' = SetTop([Top EXCEPT !.pc = "threw", !.failedAt = "entry"])
  /\ currentState' = Top.arg
  /\ monitor' = StoppedMonitor
  /\ UNCHANGED <<initialState, heap, machine, toggles>>

\* The hook that is running throws: handle catches nothing, so its
\* activation ends there.
HookThrows ==
  /\ stack # <<>>
  /\ \/ /\ Top.pc = "inExit"
        /\ GetMember(heap, Running.v, "exit").throws
        /\ stack' = SetTop([Top EXCEPT !.pc = "threw", !.failedAt = "exit"])
     \/ /\ Top.pc = "inEntry"
        /\ GetMember(heap, Running.v, "entry").throws
        /\ stack' = SetTop([Top EXCEPT !.pc = "threw", !.failedAt = "entry"])
  /\ monitor' = StoppedMonitor
  /\ UNCHANGED <<currentState, initialState, heap, machine, toggles>>

\* Mutant: handle gives control back while its entry hook is still running
\* (the hook is started but not waited for).
ReturnEarly ==
  /\ stack # <<>>
  /\ Top.pc \in {"done", "threw", "inEntry"}
  /\ stack' = SubSeq(stack, 1, Len(stack) - 1)
  /\ IF Top.op = "construct"
       THEN IF Top.pc # "threw"
              THEN initialState' = Null /\ machine' = "ready"
              ELSE machine' = "failed" /\ UNCHANGED initialState
       ELSE UNCHANGED <<initialState, machine>>
  /\ UNCHANGED <<currentState, heap, monitor, toggles>>

\* Mutant: line 24 clears currentState instead of initialState.
ReturnClearsState ==
  /\ stack # <<>>
  /\ Top.pc \in {"done", "threw"}
  /\ stack' = SubSeq(stack, 1, Len(stack) - 1)
  /\ IF Top.op = "construct"
       THEN IF Top.pc = "done"
              THEN currentState' = Null /\ machine' = "ready"
              ELSE machine' = "failed" /\ UNCHANGED currentState
       ELSE UNCHANGED <<currentState, machine>>
  /\ UNCHANGED <<initialState, heap, monitor, toggles>>

\* handle gives control back to its caller.  For the call inside
\* createStateMachine, line 24 and the return of the machine follow; if
\* that call threw, no machine is ever returned.
Return ==
  /\ stack # <<>>
  /\ Top.pc \in {"done", "threw"}
  /\ stack' = SubSeq(stack, 1, Len(stack) - 1)
  /\ IF Top.op = "construct"
       THEN IF Top.pc = "done"
              THEN initialState' = Null /\ machine' = "ready"
              ELSE machine' = "failed" /\ UNCHANGED initialState
       ELSE UNCHANGED <<initialState, machine>>
  /\ UNCHANGED <<currentState, heap, monitor, toggles>>

Next == Construct \/ Handle \/ Invoke \/ HookReturns \/ HookThrows \/ Return

Spec == Init /\ [][Next]_vars

TypeOK ==
  /\ currentState \in Values
  /\ initialState \in Values
  /\ heap \in Heaps
  /\ machine \in {"new", "constructing", "ready", "failed"}
  /\ Len(stack) <= 1

\* ------------------------------------------------------- re-entrant hooks
\* Nothing in handle keeps a hook from calling handle or invoke of the
\* machine it runs under (once createStateMachine has returned it): the
\* nested call is one more activation, on top of the one whose hook is
\* running.
Reenter(r) ==
  /\ stack' = Append(SetTop([Top EXCEPT !.reentered = @ \cup {Running.k}]),
                     r.frame)
  /\ currentState' = r.cur
  /\ monitor' = StoppedMonitor

InHook ==
  /\ machine = "ready"
  /\ stack # <<>>
  /\ Len(stack) < MaxDepth
  /\ Top.pc \in {"inExit", "inEntry"}

\* The running hook calls machine.handle(reducer); the reducer returns a
\* state object or null, or throws.
HookCallsHandle ==
  /\ InHook
  /\ \E out \in {Returned(v) : v \in Objects \cup {Null}} \cup {Threw} :
       Reenter(Begin(heap, "handle", <<>>, currentState, out))
  /\ UNCHANGED <<initialState, heap, machine, toggles>>

\* The running hook calls machine.invoke(eventName).
HookCallsInvoke ==
  /\ InHook
  /\ \E eventName \in EventNames :
       LET arguments == <<eventName>>
           args == Slice(arguments, 1)
       IN  \E out \in InvokeReducer(heap, currentState, arguments[1], args) :
             Reenter(Begin(heap, "invoke", arguments, currentState, out))
  /\ UNCHANGED <<initialState, heap, machine, toggles>>

\* Every state object has both hooks, so that every transition between
\* objects runs both and each of them can call back.
InitReentrant ==
  /\ currentState = Null
  /\ initialState \in Objects
  /\ heap = [o \in Objects |-> ObjectShape(o.id, TRUE, TRUE)]
  /\ stack = <<>>
  /\ machine = "new"
  /\ monitor = CleanMonitor
  /\ toggles = 0

\* machine.handle(reducer) by the host, with a reducer that returns a state
\* object or null, or throws.
HandleObject ==
  /\ machine = "ready"
  /\ stack = <<>>
  /\ \E out \in {Returned(v) : v \in Objects \cup {Null}} \cup {Threw} :
       Run(Begin(heap, "handle", <<>>, currentState, out))
  /\ UNCHANGED <<initialState, heap, machine, toggles>>

NextReentrant ==
  \/ Construct
  \/ HandleObject
  \/ HookCallsHandle
  \/ HookCallsInvoke
  \/ HookReturns
  \/ HookThrows
  \/ Return

SpecReentrant == InitReentrant /\ [][NextReentrant]_vars

\* ----------------------------------------------------------- mutable states
\* State objects are ordinary objects: between two calls the host may
\* change the members of one.  Here it replaces the event members of an
\* object by those of another layout, which can make two distinct objects
\* equal member for member; every object keeps both hooks.
InitMutable == InitReentrant

Mutate ==
  /\ machine = "ready"
  /\ stack = <<>>
  /\ \E o \in Objects, i \in 1..3 :
       /\ heap[o] # ObjectShape(i, TRUE, TRUE)
       /\ heap' = [heap EXCEPT ![o] = ObjectShape(i, TRUE, TRUE)]
  /\ UNCHANGED <<currentState, initialState, stack, machine, monitor, toggles>>

NextMutable == Next \/ Mutate

SpecMutable == InitMutable /\ [][NextMutable]_vars

\* ------------------------------------------------------------ toggle machine
\* The two-state machine of the scenario: On has entry, exit and a toggle
\* handler that returns Off; Off has entry and a toggle handler that
\* returns On, and no exit.  No hook and no handler throws.
On == Obj(1)
Off == Obj(2)
Hook == Fn({Undefined}, FALSE)

ToggleHeap ==
  [o \in {On, Off} |->
     IF o = On
       THEN [entry |-> Hook, exit |-> Hook, toggle |-> Fn({Off}, FALSE)]
       ELSE [entry |-> Hook, toggle |-> Fn({On}, FALSE)]]

ToggleEvents == {"toggle", "missing"}

InitToggle ==
  /\ currentState = Null
  /\ initialState = Off
  /\ heap = ToggleHeap
  /\ stack = <<>>
  /\ machine = "new"
  /\ monitor = CleanMonitor
  /\ toggles = 0

\* invoke('toggle', ...) or invoke('missing', ...) by the host; toggles
\* counts the invoke('toggle') calls made.
InvokeToggle ==
  /\ machine = "ready"
  /\ stack = <<>>
  /\ toggles < MaxToggles
  /\ \E eventName \in ToggleEvents, rest \in ArgLists :
       /\ InvokeCall(<<eventName>> \o rest)
       /\ toggles' = IF eventName = "toggle" THEN toggles + 1 ELSE toggles
  /\ UNCHANGED <<initialState, heap, machine>>

NextToggle == Construct \/ InvokeToggle \/ HookReturns \/ Return

SpecToggle == InitToggle /\ [][NextToggle]_vars

\* ------------------------------------------------------------------ claims
Frames == {stack[i] : i \in DOMAIN stack}

HookCalls(f) == {i \in DOMAIN f.trace : f.trace[i].k \in {"exit", "entry"}}

\* The transition of C1: A and B distinct objects, A with an exit hook, B
\* with an entry hook.
IsFullTransition(f) ==
  /\ f.op = "handle"
  /\ f.failedAt = "none"
  /\ f.arg \in Objects /\ f.next \in Objects /\ f.next # f.arg
  /\ GetMember(heap, f.arg, "exit").kind = "fn"
  /\ GetMember(heap, f.next, "entry").kind = "fn"

\* C1: a handle call whose reducer returns B, not identical to the current
\* state A (A with exit, B with entry), calls the reducer with A, then
\* A.exit while currentState is still A, then reassigns currentState to B,
\* then calls B.entry while currentState is B; each once, and nothing else.
C1_ExitAssignEntry ==
  \A f \in Frames :
    IsFullTransition(f) =>
      LET A == f.arg
          B == f.next
          full == <<Step("reducer", A, A), Step("exit", A, A),
                    Step("assign", B, B), Step("entry", B, B)>>
      IN  /\ f.pc \in {"inExit", "inEntry", "done"}
          /\ f.pc = "inExit" => f.trace = SubSeq(full, 1, 2) /\ currentState = A
          /\ f.pc = "inEntry" => f.trace = full /\ currentState = B
          /\ f.pc = "done" => f.trace = full /\ currentState = B

C1_Witness ==
  \E f \in Frames : IsFullTransition(f) /\ f.pc = "done"

\* C2: a handle call whose reducer returns the very reference that is the
\* current state calls no exit and no entry hook and leaves currentState
\* as it was.
C2_IdentityNoOp ==
  \A f \in Frames :
    (f.op = "handle" /\ f.failedAt # "reducer" /\ f.next = f.arg) =>
      /\ f.pc = "done"
      /\ HookCalls(f) = {}
      /\ currentState = f.arg

C2_Witness ==
  \E f \in Frames :
    /\ f.op = "handle" /\ f.pc = "done" /\ f.next = f.arg
    /\ f.arg \in Objects
    /\ GetMember(heap, f.arg, "exit").kind = "fn"
    /\ GetMember(heap, f.arg, "entry").kind = "fn"

\* C3: constructing a machine on an initialState that has an entry hook
\* calls that hook exactly once and no exit hook before the constructor
\* returns, and leaves currentState identical to initialState.
C3_InitialEntry ==
  /\ \A f \in Frames :
       (f.op = "construct" /\ GetMember(heap, initialState, "entry").kind = "fn") =>
         /\ f.pc \in {"inEntry", "done", "threw"}
         /\ f.trace = <<Step("reducer", Null, Null),
                        Step("assign", initialState, initialState),
                        Step("entry", initialState, initialState)>>
         /\ currentState = initialState
  /\ machine = "new" => stack = <<>> /\ currentState = Null
  /\ machine = "ready" => \A f \in Frames : f.op # "construct"

C3_Witness ==
  \E f \in Frames :
    /\ f.op = "construct" /\ f.pc = "done"
    /\ GetMember(heap, initialState, "entry").kind = "fn"
    /\ GetMember(heap, initialState, "exit").kind = "fn"

\* C4: when the current state is a state object that has no member of the
\* given event name, invoke leaves currentState unchanged, calls no hook
\* and raises nothing.
C4_DispatchMiss ==
  \A f \in Frames :
    (/\ f.op = "invoke"
     /\ f.arg \in Objects
     /\ GetMember(heap, f.arg, f.call[1]).kind = "absent") =>
      /\ f.pc = "done"
      /\ f.trace = <<Step("reducer", f.arg, f.arg)>>
      /\ currentState = f.arg

C4_Witness ==
  \E f \in Frames :
    /\ f.op = "invoke" /\ f.pc = "done"
    /\ f.arg \in Objects
    /\ GetMember(heap, f.arg, f.call[1]).kind = "absent"
    /\ Len(f.call) > 1
    /\ GetMember(heap, f.arg, "exit").kind = "fn"

\* The current state does not handle the event: it has no member of that
\* name (null and undefined have no members at all).
Unhandled(f) ==
  f.op = "invoke" /\ GetMember(heap, f.arg, f.call[1]).kind = "absent"

\* C5: whatever the current state has become (null and undefined
\* included), invoke with an event name the current state does not handle
\* completes without raising and leaves currentState unchanged.
C5_UnhandledNeverRaises ==
  \A f \in Frames :
    Unhandled(f) => f.pc = "done" /\ currentState = f.arg

\* The invoke of C6: the current state S is an object whose member of the
\* given name is a function.
IsDispatchHit(f) ==
  /\ f.op = "invoke"
  /\ f.arg \in Objects
  /\ GetMember(heap, f.arg, f.call[1]).kind = "fn"

\* The steps of a transition from S to T that ran to its end: S.exit if S
\* has one, the reassignment, T.entry if T has one.
TransitionSteps(S, T) ==
  (IF HasHook(heap, S, "exit") THEN <<Step("exit", S, S)>> ELSE <<>>)
    \o <<Step("assign", T, T)>>
    \o (IF HasHook(heap, T, "entry") THEN <<Step("entry", T, T)>> ELSE <<>>)

\* C6: invoke(eventName, a1..an) on a state S that has a handler of that
\* name calls the handler exactly once, with S as receiver and a1..an in
\* order, and then makes the transition to what it returned: none (no
\* hook, same state) if that is S itself, else S.exit, the reassignment
\* and the new state's entry.
C6_DispatchHit ==
  \A f \in Frames :
    IsDispatchHit(f) =>
      LET S == f.arg
          dispatch == <<Step("reducer", S, S),
                        HandlerStep(S, S, f.call[1], Tail(f.call))>>
      IN  /\ Len(f.trace) >= 2
          /\ SubSeq(f.trace, 1, 2) = dispatch
          /\ \A i \in DOMAIN f.trace : f.trace[i].k = "handler" => i = 2
          /\ (f.pc = "done" /\ f.next = S) =>
               f.trace = dispatch /\ currentState = S
          /\ (f.pc = "done" /\ f.next # S) =>
               /\ f.trace = dispatch \o TransitionSteps(S, f.next)
               /\ currentState = f.next

C6_Witness ==
  \E f \in Frames :
    /\ IsDispatchHit(f) /\ f.pc = "done"
    /\ Len(f.call) = 3 /\ f.call[2] # f.call[3]
    /\ f.next \in Objects /\ f.next # f.arg
    /\ Len(f.trace) = 5

C6_WitnessSelf ==
  \E f \in Frames :
    IsDispatchHit(f) /\ f.pc = "done" /\ f.next = f.arg /\ Len(f.call) = 2

\* C7: when the reducer given to handle, or the handler invoke dispatches
\* to, throws, the call ends with that error, currentState is what it was
\* before the call and the call has called no exit and no entry hook.
C7_ReducerThrows ==
  \A f \in Frames :
    f.failedAt = "reducer" =>
      /\ f.pc = "threw"
      /\ currentState = f.arg
      /\ HookCalls(f) = {}
      /\ \A i \in DOMAIN f.trace : f.trace[i].k # "assign"

C7_Witness ==
  \E f \in Frames :
    /\ f.failedAt = "reducer" /\ f.op = "handle"
    /\ GetMember(heap, f.arg, "exit").kind = "fn"

C7_WitnessHandler ==
  \E f \in Frames :
    /\ f.failedAt = "reducer" /\ IsDispatchHit(f)
    /\ GetMember(heap, f.arg, "exit").kind = "fn"

\* C8: when the exit hook of the outgoing state A throws during a
\* transition from A to B, the call ends with that error, currentState is
\* still A and B.entry has not been called.
C8_ExitThrows ==
  \A f \in Frames :
    f.failedAt = "exit" =>
      /\ f.pc = "threw"
      /\ currentState = f.arg
      /\ f.trace[Len(f.trace)] = Step("exit", f.arg, f.arg)
      /\ \A i \in DOMAIN f.trace : f.trace[i].k \notin {"assign", "entry"}

C8_Witness ==
  \E f \in Frames :
    /\ f.failedAt = "exit"
    /\ f.next \in Objects
    /\ GetMember(heap, f.next, "entry").kind = "fn"

\* C9: when the entry hook of the incoming state B throws during a
\* transition from A to B, the call ends with that error, A.exit has
\* already been called and currentState is B, not rolled back to A; the
\* same for a throwing entry hook of initialState during construction.
C9_EntryThrows ==
  \A f \in Frames :
    f.failedAt = "entry" =>
      /\ f.pc = "threw"
      /\ currentState = f.next
      /\ f.next # f.arg
      /\ LET n == Len(f.trace)
             k == Len(TransitionSteps(f.arg, f.next))
         IN  /\ n > k
             /\ SubSeq(f.trace, n - k + 1, n) = TransitionSteps(f.arg, f.next)

C9_Witness ==
  \E f \in Frames :
    /\ f.failedAt = "entry" /\ f.op \in {"handle", "invoke"}
    /\ GetMember(heap, f.arg, "exit").kind = "fn"

C9_WitnessConstruct ==
  \E f \in Frames : f.failedAt = "entry" /\ f.op = "construct"

\* C10 as stated: the first handle call, made by createStateMachine,
\* passes the identity check and reassigns currentState for every
\* initialState, null and undefined included.
C10_AlwaysReassigns ==
  \A f \in Frames :
    (f.op = "construct" /\ f.pc = "done") =>
      \E i \in DOMAIN f.trace : f.trace[i] = Step("assign", f.next, f.next)

\* C10, amended: for every initialState but null, createStateMachine makes
\* one transition from the internal null to initialState under the usual
\* hook rules (no exit, the reassignment, entry if there is one); for null
\* the identity check does not pass and nothing is reassigned.  Either
\* way currentState ends up being initialState.
C10_FirstTransition ==
  \A f \in Frames :
    f.op = "construct" =>
      /\ f.arg = Null /\ f.next = initialState
      /\ f.next # Null =>
           /\ Len(f.trace) >= 2
           /\ SubSeq(f.trace, 1, 2) = <<Step("reducer", Null, Null),
                                        Step("assign", f.next, f.next)>>
           /\ currentState = f.next
           /\ f.pc = "done" =>
                f.trace = <<Step("reducer", Null, Null)>>
                            \o TransitionSteps(Null, f.next)
      /\ f.next = Null =>
           /\ f.pc = "done"
           /\ f.trace = <<Step("reducer", Null, Null)>>
           /\ currentState = Null

C10_Witness ==
  \E f \in Frames : f.op = "construct" /\ f.pc = "done" /\ f.next = Undefined

C10_WitnessNull ==
  \E f \in Frames : f.op = "construct" /\ f.pc = "done" /\ f.next = Null

\* The activation made a transition: it reassigned currentState.
Reassigned(f) ==
  \E i \in DOMAIN f.trace : f.trace[i] = Step("assign", f.next, f.next)

\* C11: the entry hook the machine calls is the state's enter() method:
\* every transition that ran to its end, the one of createStateMachine
\* included, has called enter() on the new state if the state has one.
C11_EnterIsCalled ==
  \A f \in Frames :
    (/\ f.pc = "done"
     /\ Reassigned(f)
     /\ GetMember(heap, f.next, "enter").kind = "fn") =>
      \E i \in DOMAIN f.trace : f.trace[i] = Step("enter", f.next, f.next)

\* C12: the toggle machine started at Off.  Construction calls Off.entry
\* once; after n invoke('toggle') calls the state is On for odd n and Off
\* for even n; a toggle from Off calls only On.entry, a toggle from On
\* calls On.exit and then Off.entry; invoke('missing') changes nothing and
\* calls no hook.
C12_Toggle ==
  /\ (stack = <<>> /\ machine = "ready") =>
       currentState = IF toggles % 2 = 1 THEN On ELSE Off
  /\ \A f \in Frames :
       /\ f.pc # "threw"
       /\ (f.op = "construct" /\ f.pc = "done") =>
            f.trace = <<Step("reducer", Null, Null), Step("assign", Off, Off),
                        Step("entry", Off, Off)>>
       /\ (f.op = "invoke" /\ f.pc = "done" /\ f.call[1] = "toggle") =>
            LET dispatch == <<Step("reducer", f.arg, f.arg),
                              HandlerStep(f.arg, f.arg, "toggle", Tail(f.call))>>
            IN  /\ f.arg \in {On, Off}
                /\ f.arg = Off =>
                     /\ f.trace = dispatch \o <<Step("assign", On, On),
                                                Step("entry", On, On)>>
                     /\ currentState = On
                /\ f.arg = On =>
                     /\ f.trace = dispatch \o <<Step("exit", On, On),
                                                Step("assign", Off, Off),
                                                Step("entry", Off, Off)>>
                     /\ currentState = Off
       /\ (f.op = "invoke" /\ f.call[1] = "missing") =>
            /\ f.pc = "done"
            /\ f.trace = <<Step("reducer", f.arg, f.arg)>>
            /\ currentState = f.arg

C12_Witness ==
  /\ toggles = 3
  /\ \E f \in Frames :
       f.op = "invoke" /\ f.pc = "done" /\ f.call[1] = "missing" /\ f.arg = On

C12_WitnessToggleBack ==
  /\ toggles = 2
  /\ \E f \in Frames :
       f.op = "invoke" /\ f.pc = "done" /\ f.call[1] = "toggle" /\ f.arg = On

\* C13: currentState is only ever changed by an activation of handle (the
\* one of createStateMachine, of a handle call or of an invoke call), and
\* the value it gets is what the reducer of that activation returned:
\* initialState for the constructor's call.  So after construction
\* currentState is initialState or the result of an earlier reducer or
\* handler call.
C13_OnlyHandleAssigns ==
  [][currentState' # currentState =>
       /\ stack' # <<>>
       /\ LET f == stack'[Len(stack')]
          IN  /\ f.op \in {"construct", "handle", "invoke"}
              /\ f.failedAt # "reducer"
              /\ currentState' = f.next
              /\ Reassigned(f)
              /\ f.op = "construct" => f.next = initialState]_vars

C13_Witness ==
  \E f \in Frames :
    /\ f.op = "invoke" /\ f.pc = "done"
    /\ Reassigned(f)
    /\ f.next \in Objects /\ f.next # f.arg
    /\ currentState = f.next

\* The steps a finished activation has made: the reducer (and the handler
\* it dispatched to), then, if the identity check passed, the whole
\* transition from the state the reducer was given to the one it returned.
RanToCompletion(f) ==
  /\ f.pc = "done"
  /\ \E p \in {1, 2} :
       /\ Len(f.trace) >= p
       /\ \A i \in 1..p : f.trace[i].k \in {"reducer", "handler"}
       /\ SubSeq(f.trace, p + 1, Len(f.trace)) =
            IF StrictNotEqual(f.next, f.arg)
              THEN TransitionSteps(f.arg, f.next)
              ELSE <<>>

\* C14: a call of handle or invoke made by a running exit or entry hook is
\* an activation of its own that runs to its end before the activation
\* whose hook made it takes another step: while it is there, no activation
\* below it changes; it leaves only when it is over (and if it did not
\* throw it has made all of its steps); the outer activation then goes on
\* and, if nothing throws, makes all the steps of its own transition.
C14_NestedRunsFirst ==
  [][/\ \A i \in 1..(Len(stack) - 1) :
          i <= Len(stack') /\ stack'[i] = stack[i]
     /\ Len(stack') < Len(stack) =>
          /\ Top.pc \in {"done", "threw"}
          /\ Top.pc = "done" => RanToCompletion(Top)
     /\ \A i \in DOMAIN stack' :
          stack'[i].pc = "done" => RanToCompletion(stack'[i])]_vars

C14_Witness ==
  /\ Len(stack) = 1
  /\ RanToCompletion(Top)
  /\ Top.reentered = {"exit", "entry"}
  /\ Len(Top.trace) = 4

C14_WitnessNested ==
  /\ Len(stack) = 2
  /\ stack[1].pc = "inExit"
  /\ RanToCompletion(Top) /\ Len(Top.trace) = 4

\* The exit calls an activation has made.
ExitCalls(f) == {f.trace[i] : i \in {j \in DOMAIN f.trace : f.trace[j].k = "exit"}}

\* C19 as stated: under re-entrant calls too, no state with an exit hook
\* is replaced as current state by an activation that has not called that
\* hook.
C19_PairingUnderReentry ==
  [][(currentState' # currentState /\ HasHook(heap, currentState, "exit")) =>
       Step("exit", currentState, currentState)
         \in ExitCalls(stack'[Len(stack')])]_vars

\* C19, amended: pairing survives a call made from an entry hook, not one
\* made from an exit hook.  Every activation calls exit at most once, on
\* the state its reducer was given, and an activation replaces a state
\* without having called its exit only when that state was installed by a
\* call made from the activation's own exit hook.
C19_PairingButForExitReentry ==
  [][/\ \A i \in DOMAIN stack' :
          ExitCalls(stack'[i]) \subseteq
            {Step("exit", stack'[i].arg, stack'[i].arg)}
     /\ (currentState' # currentState /\ HasHook(heap, currentState, "exit")) =>
          LET f == stack'[Len(stack')]
          IN  \/ Step("exit", currentState, currentState) \in ExitCalls(f)
              \/ "exit" \in f.reentered]_vars

\* The exit hook of the transition from A to B has installed a third
\* state C, which the transition is about to replace.
C19_Witness ==
  /\ Len(stack) = 1
  /\ Top.pc = "inExit"
  /\ "exit" \in Top.reentered
  /\ Top.arg \in Objects /\ Top.next \in Objects
  /\ currentState \in Objects \ {Top.arg, Top.next}

\* The entry hook of the transition from A to B has installed C.
C19_WitnessEntry ==
  /\ Len(stack) = 1
  /\ Top.pc = "inEntry"
  /\ Top.reentered = {"entry"}
  /\ Top.arg \in Objects /\ Top.next \in Objects
  /\ currentState \in Objects \ {Top.arg, Top.next}

\* The hook whose call ended the activation was really called: handle
\* itself raised nothing.
OnlyHooksRaise(f) ==
  f.failedAt \in {"exit", "entry"} =>
    /\ f.trace # <<>>
    /\ f.trace[Len(f.trace)].k = f.failedAt

\* C15: a transition to or from null or undefined never raises and calls
\* only the hook of the side that is an object: from A to null/undefined
\* it calls A.exit (if there is one), reassigns and calls no entry; from
\* null/undefined to B it calls no exit, reassigns and calls B.entry (if
\* there is one).
C15_NullTransitions ==
  \A f \in Frames :
    (f.op = "handle" /\ f.failedAt # "reducer") =>
      /\ (f.arg \in Objects /\ f.next \in {Null, Undefined}) =>
           /\ OnlyHooksRaise(f)
           /\ \A i \in DOMAIN f.trace : f.trace[i].k # "entry"
           /\ f.pc = "done" =>
                /\ f.trace = <<Step("reducer", f.arg, f.arg)>>
                               \o TransitionSteps(f.arg, f.next)
                /\ currentState = f.next
      /\ (f.arg \in {Null, Undefined} /\ f.next \in Objects) =>
           /\ OnlyHooksRaise(f)
           /\ \A i \in DOMAIN f.trace : f.trace[i].k # "exit"
           /\ f.pc = "done" =>
                /\ f.trace = <<Step("reducer", f.arg, f.arg)>>
                               \o TransitionSteps(f.arg, f.next)
                /\ currentState = f.next

C15_Witness ==
  \E f \in Frames :
    /\ f.op = "handle" /\ f.pc = "done"
    /\ f.arg = Undefined /\ f.next \in Objects
    /\ BothHooks(heap, f.next)
    /\ Len(f.trace) = 3

C15_WitnessToNull ==
  \E f \in Frames :
    /\ f.op = "handle" /\ f.pc = "done"
    /\ f.next = Null /\ f.arg \in Objects
    /\ BothHooks(heap, f.arg)
    /\ Len(f.trace) = 3

\* C17: when the current state has a member of the event's name that is
\* not callable (a data field, true or false), invoke calls nothing,
\* raises nothing, and leaves currentState unchanged with no hook called.
C17_DataMemberIsNoOp ==
  \A f \in Frames :
    (/\ f.op = "invoke"
     /\ f.arg \in Objects
     /\ GetMember(heap, f.arg, f.call[1]).kind \in {"truthy", "falsy"}) =>
      /\ f.pc = "done"
      /\ f.trace = <<Step("reducer", f.arg, f.arg)>>
      /\ currentState = f.arg

\* C18 as stated: as long as no reducer, handler or hook has thrown and no
\* hook has called back into the machine, after every call that is over
\* the only state whose last entry has no later exit is the current state.
C18_OnlyCurrentEntered ==
  (~monitor.stopped /\ (stack = <<>> \/ Top.pc = "done")) =>
    monitor.entered \subseteq {currentState}

\* C18, amended: in such runs the hook calls of the states that have both
\* hooks are paired: an entry (of any state) is called only when none of
\* them is open (entered and not exited since), an exit of one of them
\* only when it is open, and after every call that is over the open state,
\* if any, is the current state.  A state with an entry hook and no exit
\* hook is left without an exit call.
C18_HooksPaired ==
  ~monitor.stopped =>
    /\ monitor.paired
    /\ (stack = <<>> \/ Top.pc = "done") =>
         monitor.open = {o \in {currentState} : BothHooks(heap, o)}

C18_Witness ==
  /\ ~monitor.stopped
  /\ stack # <<>>
  /\ Top.op \in {"handle", "invoke"}
  /\ Top.pc = "done"
  /\ Top.arg \in Objects /\ Top.next \in Objects /\ Top.next # Top.arg
  /\ BothHooks(heap, Top.arg) /\ BothHooks(heap, Top.next)
  /\ monitor.open = {Top.next}

\* C16: handle goes by the identity of the reference alone.  A reducer
\* that returns another object makes the full transition (old exit,
\* reassignment, new entry) even when the two objects are equal member for
\* member; a reducer that returns the current reference makes none,
\* whatever has been done to the object's members in the meantime.
C16_IdentityOnly ==
  \A f \in Frames :
    (f.failedAt # "reducer" /\ f.arg \in Objects /\ f.next \in Objects) =>
      /\ f.next # f.arg =>
           /\ Step("exit", f.arg, f.arg) \in ExitCalls(f)
           /\ f.pc = "done" =>
                /\ Len(f.trace) >= 3
                /\ SubSeq(f.trace, Len(f.trace) - 2, Len(f.trace)) =
                     <<Step("exit", f.arg, f.arg),
                       Step("assign", f.next, f.next),
                       Step("entry", f.next, f.next)>>
                /\ currentState = f.next
      /\ f.next = f.arg =>
           /\ f.pc = "done"
           /\ HookCalls(f) = {}
           /\ ~Reassigned(f)
           /\ currentState = f.arg

\* A full transition between two distinct objects that are equal member
\* for member.
C16_Witness ==
  \E f \in Frames :
    /\ f.op = "handle" /\ f.pc = "done"
    /\ f.arg \in Objects /\ f.next \in Objects /\ f.next # f.arg
    /\ heap[f.arg] = heap[f.next]
    /\ Len(f.trace) = 4

\* No transition on the current reference, whose members were changed.
C16_WitnessMutated ==
  \E f \in Frames :
    /\ f.pc = "done"
    /\ f.arg \in Objects /\ f.next = f.arg
    /\ heap[f.arg] # ObjectShape(f.arg.id, TRUE, TRUE)
====
